---- MODULE Spec2Model ----
(***************************************************************************)
(* FacesBenchmarkUtils/baseModel.py: BaseModel.                            *)
(*                                                                         *)
(* The constructor of BaseModel is a straight line of five calls           *)
(* (lines 14-19); every instance keeps the fields the constructor assigns  *)
(* and a model object owned by the framework.  Python strings are          *)
(* sequences of one-character strings so that str.replace, the key lookup  *)
(* in named_modules() and the formatted error message are computed, not    *)
(* assumed.  Python objects read from a checkpoint file are records tagged *)
(* with their type in the field t.                                         *)
(***************************************************************************)
EXTENDS Integers, Sequences, FiniteSets, TLC

VARIABLES
    device_count,   \* torch.cuda.device_count() of the host
    checkpoint,     \* what torch.load returns for the weights path
    obj             \* instance id -> the fields of that BaseModel instance

vars == <<device_count, checkpoint, obj>>

----------------------------------------------------------------------------
(* Bounds of the model.                                                    *)

\* longest state dictionary of a checkpoint
MaxEntries == 2
\* largest accelerator count of the host
MaxDevices == 2
\* distinct tensors a layer can output in a forward pass
MaxOutputs == 2

----------------------------------------------------------------------------
(* Python strings.                                                         *)

Dot == <<".">>
S_module_dot == <<"m", "o", "d", "u", "l", "e", ".">>
S_module == <<"m", "o", "d", "u", "l", "e">>
S_state_dict == <<"s", "t", "a", "t", "e", "_", "d", "i", "c", "t">>
S_epoch == <<"e", "p", "o", "c", "h">>
S_model == <<"m", "o", "d", "e", "l">>
S_loss == <<"l", "o", "s", "s">>
S_empty == <<>>
S_f == <<"f">>
S_s == <<"s">>
S_g == <<"g">>
S_w == <<"w">>

StartsWith(s, p) ==
    /\ Len(s) >= Len(p)
    /\ SubSeq(s, 1, Len(p)) = p

\* str.replace(old, new): every non-overlapping occurrence, left to right
RECURSIVE Replace(_, _, _)
Replace(s, old, new) ==
    IF Len(s) < Len(old) THEN s
    ELSE IF StartsWith(s, old)
         THEN new \o Replace(SubSeq(s, Len(old) + 1, Len(s)), old, new)
         ELSE <<Head(s)>> \o Replace(Tail(s), old, new)

\* sub in s, for strings
Contains(s, sub) ==
    \E k \in 0..(Len(s) - Len(sub)) : SubSeq(s, k + 1, k + Len(sub)) = sub

----------------------------------------------------------------------------
(* Python values.                                                          *)

None == [t |-> "None"]
Str(s) == [t |-> "str", s |-> s]
Tensor(id, shape) == [t |-> "tensor", id |-> id, shape |-> shape]
PyInt == [t |-> "int"]
PyList == [t |-> "list"]
PyModule == [t |-> "Module"]
NoFile == [t |-> "nofile"]
Item(k, v) == [k |-> k, v |-> v]
\* a dict keeps its items in insertion order
Dict(items) == [t |-> "dict", items |-> items]

Keys(d) == [n \in 1..Len(d.items) |-> d.items[n].k]
HasKey(d, k) == \E n \in 1..Len(d.items) : d.items[n].k = k
GetItem(d, k) == d.items[CHOOSE n \in 1..Len(d.items) : d.items[n].k = k].v

\* d[k] = v: an existing key keeps its place and takes the new value
SetItem(d, k, v) ==
    IF HasKey(d, k)
    THEN Dict([n \in 1..Len(d.items) |->
                 IF d.items[n].k = k THEN Item(k, v) ELSE d.items[n]])
    ELSE Dict(Append(d.items, Item(k, v)))

Ok(v) == [ok |-> TRUE, val |-> v]
Raise(kind, msg) == [ok |-> FALSE, err |-> [t |-> kind, msg |-> msg]]

----------------------------------------------------------------------------
(* Checkpoint files.                                                       *)

\* parameter names found in checkpoints: plain, saved from a DataParallel
\* wrapper, and of a network that has a submodule called "module"
K_w == S_w
K_module_w == S_module_dot \o S_w
K_f_module_w == S_f \o Dot \o S_module_dot \o S_w
KeyPool == {K_w, K_module_w, K_f_module_w}

\* torch.Size of a tensor: a 0-dim tensor, a vector, a matrix
Shapes == {<<>>, <<5>>, <<7, 3>>}

NoDup(ks) == \A a, b \in 1..Len(ks) : ks[a] = ks[b] => a = b

\* the state dictionaries of at most n entries; a tensor's id is its place
\* in the file
StateDicts(n) ==
    { Dict([e \in 1..m |-> Item(ks[e], Tensor(e, shs[e]))]) :
        <<m, ks, shs>> \in
          { x \in UNION { {m} \X [1..m -> KeyPool] \X [1..m -> Shapes] : m \in 0..n } :
              NoDup(x[2]) } }

\* {'state_dict': sd}, as a training script saves it
Nested(sd) == Dict(<<Item(S_state_dict, sd)>>)

AnyStateDict == CHOOSE sd \in StateDicts(1) : Len(sd.items) = 1

\* files that hold neither a state dictionary nor one under 'state_dict'
OtherFormats ==
    { PyList,
      PyModule,
      NoFile,
      Dict(<<Item(S_epoch, PyInt), Item(S_model, AnyStateDict)>>),
      Dict(<<Item(S_model, AnyStateDict), Item(S_epoch, PyInt)>>),
      Dict(<<Item(S_model, AnyStateDict), Item(S_loss, Tensor(0, <<1>>))>>) }

Checkpoints ==
    StateDicts(MaxEntries) \cup { Nested(sd) : sd \in StateDicts(MaxEntries) }
      \cup OtherFormats

\* torch.load(self.weights_path, map_location=self.device)
torch_load(file) ==
    IF file.t = "nofile" THEN Raise("FileNotFoundError", S_empty) ELSE Ok(file)

\* 'state_dict' in checkpoint
InCheckpoint(c) ==
    IF c.t = "dict" THEN Ok(HasKey(c, S_state_dict))
    ELSE IF c.t = "list" THEN Ok(FALSE)
    ELSE Raise("TypeError", S_empty)

\* list(d.keys())[0]: the first entry instead of the last
last_key_First(d) ==
    IF d.t # "dict" THEN Raise("AttributeError", S_empty)
    ELSE IF Len(d.items) = 0 THEN Raise("IndexError", S_empty)
    ELSE Ok(Keys(d)[1])

\* list(d.keys())[-1]
last_key(d) ==
    IF d.t # "dict" THEN Raise("AttributeError", S_empty)
    ELSE IF Len(d.items) = 0 THEN Raise("IndexError", S_empty)
    ELSE Ok(Keys(d)[Len(d.items)])

\* d[k].shape[0]
shape0(d, k) ==
    IF GetItem(d, k).t # "tensor" THEN Raise("AttributeError", S_empty)
    ELSE IF Len(GetItem(d, k).shape) = 0 THEN Raise("IndexError", S_empty)
    ELSE Ok(GetItem(d, k).shape[1])

\* the dictionary whose last entry is read
NumIdentitiesDict(c) ==
    IF InCheckpoint(c).val THEN GetItem(c, S_state_dict) ELSE c

\* BaseModel._set_num_identities
set_num_identities(file) ==
    IF ~torch_load(file).ok THEN torch_load(file)
    ELSE IF ~InCheckpoint(file).ok THEN InCheckpoint(file)
    ELSE IF ~last_key(NumIdentitiesDict(file)).ok
         THEN last_key(NumIdentitiesDict(file))
    ELSE shape0(NumIdentitiesDict(file), last_key(NumIdentitiesDict(file)).val)

\* checkpoint.get('state_dict', checkpoint)
checkpoint_get(c) ==
    IF c.t # "dict" THEN Raise("AttributeError", S_empty)
    ELSE IF HasKey(c, S_state_dict) THEN Ok(GetItem(c, S_state_dict))
    ELSE Ok(c)

\* {k.replace("module.", ""): v for k, v in state_dict.items()}
RECURSIVE StripInto(_, _, _)
StripInto(acc, items, n) ==
    IF n > Len(items) THEN acc
    ELSE StripInto(SetItem(acc, Replace(items[n].k, S_module_dot, S_empty), items[n].v),
                   items, n + 1)

strip_keys(sd) ==
    IF sd.t # "dict" THEN Raise("AttributeError", S_empty)
    ELSE Ok(StripInto(Dict(<<>>), sd.items, 1))

----------------------------------------------------------------------------
(* Networks and the model object.                                          *)

\* an nn.Module: its class, its direct parameters, its child modules
Module(cls, params, children) ==
    [cls |-> cls, params |-> params, children |-> children]
Child(name, m) == [name |-> name, m |-> m]

\* a network with a parameter of its own, an activation f and an empty
\* nn.Sequential s (an identity shortcut)
NetPlain ==
    Module("Module", {S_w},
           <<Child(S_f, Module("Module", {}, <<>>)),
             Child(S_s, Module("Sequential", {}, <<>>))>>)
\* nn.Sequential()
NetEmpty == Module("Sequential", {}, <<>>)
\* a container class with no child modules that holds a parameter directly
NetBare == Module("Sequential", {S_w}, <<>>)

Networks == {NetPlain, NetEmpty, NetBare}

\* what a subclass's _build_model may leave in self.model
Builds == { [t |-> "Module", net |-> n] : n \in Networks } \cup {None}

S_wrapper == <<"DataParallel">>

\* a module object: which one it is, and what len() and bool() see of it
ModuleObj(id, m) == [id |-> id, cls |-> m.cls, len |-> Len(m.children)]
WrapperObj == [id |-> S_wrapper, cls |-> "DataParallel", len |-> 0]

\* bool(module): nn.Sequential defines __len__, nn.Module and DataParallel
\* define neither __len__ nor __bool__
ModuleTruth(mo) == mo.cls # "Sequential" \/ mo.len > 0

\* bool(self.model)
Truthy(model) ==
    IF model.t # "Module" THEN FALSE
    ELSE IF model.wrapped THEN TRUE
    ELSE ModuleTruth(ModuleObj(S_empty, model.net))

\* dict(net.named_modules()) of the network as built
NetModules(net) ==
    Dict(<<Item(S_empty, ModuleObj(S_empty, net))>>
         \o [n \in 1..Len(net.children) |->
               Item(net.children[n].name,
                    ModuleObj(net.children[n].name, net.children[n].m))])

\* dict(self.model.named_modules()): nn.DataParallel holds the network as
\* its child "module"
named_modules(model) ==
    IF ~model.wrapped THEN NetModules(model.net)
    ELSE Dict(<<Item(S_empty, WrapperObj)>>
              \o [n \in 1..Len(NetModules(model.net).items) |->
                    Item(IF NetModules(model.net).items[n].k = S_empty
                         THEN S_module
                         ELSE S_module_dot \o NetModules(model.net).items[n].k,
                         NetModules(model.net).items[n].v)])

\* the keys of net.state_dict()
ParamKeys(net) ==
    net.params \cup
    UNION { { net.children[n].name \o Dot \o p : p \in net.children[n].m.params } :
              n \in 1..Len(net.children) }

KeySet(d) == { d.items[n].k : n \in 1..Len(d.items) }

\* model.load_state_dict(sd), strict: the keys must be the model's own
load_state_dict_ok(net, sd) ==
    /\ KeySet(sd) = ParamKeys(net)
    /\ \A n \in 1..Len(sd.items) : sd.items[n].v.t = "tensor"

----------------------------------------------------------------------------
(* A BaseModel instance.                                                   *)

Unset == [t |-> "unset"]
Output(k) == [t |-> "output", id |-> k]
Outputs == { Output(k) : k \in 1..MaxOutputs }

WeightsPaths == {None, Str(<<"weights.pth">>)}
ExtractLayers == {None, Str(S_empty), Str(S_f), Str(S_s), Str(S_g)}
PreprocessFunctions == {None, [t |-> "callable"]}

\* an instance before __init__ runs
Fresh ==
    [ status |-> "new", at |-> 0,
      preprocess |-> Unset, hook_output |-> Unset, extract_layer |-> Unset,
      weights_path |-> Unset, device |-> "unset", num_identities |-> Unset,
      model |-> Unset,
      error |-> None,         \* the exception __init__ ended in
      calls |-> <<>>,         \* what __init__ called on self.model, in order
      state_dict |-> None,    \* the mapping handed to load_state_dict
      layer_out |-> None ]    \* the last output of the layer extract_layer names

\* __init__ with the weights loaded before the network is built
InitSteps_LoadFirst ==
    <<"_set_num_identities", "_load_model", "_build_model", "to", "_register_hook">>

\* the statements of __init__ after the field assignments
InitSteps ==
    <<"_set_num_identities", "_build_model", "_load_model", "to", "_register_hook">>

Fail(self, err) == [self EXCEPT !.status = "failed", !.error = err]

\* move on to the next statement; __init__ returns after the last one
Advance(self) ==
    IF self.status = "failed" THEN self
    ELSE IF self.at = Len(InitSteps)
         THEN [self EXCEPT !.status = "ready", !.at = 0]
         ELSE [self EXCEPT !.at = @ + 1]

Called(self, c) ==
    IF self.status = "init" THEN Append(self.calls, c) ELSE self.calls

\* torch.device("cuda" if torch.cuda.is_available() else "cpu")
torch_device(count) == IF count > 0 THEN "cuda" ELSE "cpu"

\* BaseModel.set_preprocess_function
set_preprocess_function(self, f) ==
    [self EXCEPT !.preprocess = IF f = None THEN [t |-> "default"] ELSE f]

\* the nn.Module _build_model has just constructed, on the CPU and in
\* training mode
NewModel(b) ==
    IF b = None THEN None
    ELSE [ t |-> "Module", net |-> b.net, wrapped |-> FALSE, training |-> TRUE,
           device |-> "cpu", hooks |-> <<>>, loaded |-> None ]

\* BaseModel.to
to(self) ==
    IF self.model.t = "unset" THEN Fail(self, Raise("AttributeError", S_empty).err)
    ELSE IF Truthy(self.model)
         THEN [self EXCEPT !.model.device = self.device,
                            !.calls = Called(self, "to")]
         ELSE self

\* self.model.load_state_dict(state_dict)
load_state_dict(self, sd) ==
    IF self.model.t # "Module" THEN Fail(self, Raise("AttributeError", S_empty).err)
    ELSE IF ~load_state_dict_ok(self.model.net, sd)
         THEN Fail(self, Raise("RuntimeError", S_empty).err)
         ELSE [self EXCEPT !.model.loaded = sd,
                            !.calls = Called(self, "load_state_dict")]

\* if torch.cuda.device_count() > 1: self.model = nn.DataParallel(self.model)
wrap(self, count) ==
    IF count > 1
    THEN [self EXCEPT !.model.wrapped = TRUE, !.calls = Called(self, "DataParallel")]
    ELSE self

\* self.model.eval()
eval(self) ==
    [self EXCEPT !.model.training = FALSE, !.calls = Called(self, "eval")]

\* BaseModel._load_model, from load_state_dict on
load_into(self, sd, count) ==
    IF load_state_dict(self, sd).status = "failed" THEN load_state_dict(self, sd)
    ELSE eval(to(wrap(load_state_dict(self, sd), count)))

\* BaseModel._load_model
load_model(self, file, count) ==
    IF ~torch_load(file).ok THEN Fail(self, torch_load(file).err)
    ELSE IF ~checkpoint_get(file).ok THEN Fail(self, checkpoint_get(file).err)
    ELSE IF ~strip_keys(checkpoint_get(file).val).ok
         THEN Fail(self, strip_keys(checkpoint_get(file).val).err)
    ELSE load_into([self EXCEPT !.state_dict = strip_keys(checkpoint_get(file).val).val],
                   strip_keys(checkpoint_get(file).val).val, count)

\* f"Layer {layer_name} not found in the model."
NotFoundMessage(layer_name) ==
    <<"L", "a", "y", "e", "r", " ">> \o layer_name \o <<" not found in the model.">>

\* _get_layer returning None for an unknown name instead of raising
get_layer_Silent(model, layer_name) ==
    IF layer_name = None THEN Ok(None)
    ELSE IF model.t # "Module" THEN Raise("AttributeError", S_empty)
    ELSE IF HasKey(named_modules(model), layer_name.s)
         THEN Ok(GetItem(named_modules(model), layer_name.s))
         ELSE Ok(None)

\* BaseModel._get_layer
get_layer(model, layer_name) ==
    IF layer_name = None THEN Ok(None)
    ELSE IF model.t # "Module" THEN Raise("AttributeError", S_empty)
    ELSE IF HasKey(named_modules(model), layer_name.s)
         THEN Ok(GetItem(named_modules(model), layer_name.s))
         ELSE Raise("ValueError", NotFoundMessage(layer_name.s))

\* if layer:
LayerTruth(layer) == IF layer = None THEN FALSE ELSE ModuleTruth(layer)

\* layer.register_forward_hook(self.hook_fn)
register_forward_hook(self, layer) ==
    [self EXCEPT !.model.hooks = Append(@, layer.id),
                 !.calls = Called(self, "register_forward_hook")]

\* BaseModel._register_hook
register_hook(self) ==
    IF self.extract_layer = None THEN self
    ELSE IF ~get_layer(self.model, self.extract_layer).ok
         THEN Fail(self, get_layer(self.model, self.extract_layer).err)
    ELSE IF LayerTruth(get_layer(self.model, self.extract_layer).val)
         THEN register_forward_hook(self, get_layer(self.model, self.extract_layer).val)
         ELSE self

\* hook_fn that fills the slot once and never overwrites it
hook_fn_KeepFirst(o, i, output) ==
    IF o[i].hook_output = None THEN [o EXCEPT ![i].hook_output = output] ELSE o

\* hook_fn writing a slot all instances share (a class attribute)
hook_fn_Shared(o, i, output) ==
    [j \in DOMAIN o |-> [o[j] EXCEPT !.hook_output = output]]

\* BaseModel.hook_fn, called by the framework on instance i
hook_fn(o, i, output) == [o EXCEPT ![i].hook_output = output]

PyNumber(n) == [t |-> "int", v |-> n]

\* self.num_identities = self._set_num_identities() if weights_path else None
assign_num_identities(self, file) ==
    IF self.weights_path = None THEN [self EXCEPT !.num_identities = None]
    ELSE IF set_num_identities(file).ok
         THEN [self EXCEPT !.num_identities = PyNumber(set_num_identities(file).val)]
         ELSE Fail(self, set_num_identities(file).err)

\* the module extract_layer names in the model as it stands
HasLayer(self) ==
    /\ self.model.t = "Module"
    /\ self.extract_layer # None
    /\ HasKey(named_modules(self.model), self.extract_layer.s)
TheLayer(self) == GetItem(named_modules(self.model), self.extract_layer.s)

Hooked(model, id) == \E n \in 1..Len(model.hooks) : model.hooks[n] = id

----------------------------------------------------------------------------
(* The operations.  The program is single-threaded: while one __init__     *)
(* runs, nothing else does.                                                *)

Idle(i) == \A j \in DOMAIN obj : j # i => obj[j].status # "init"

\* BaseModel.__init__, the field assignments
Construct(i, weights_path, extract_layer, preprocess_function) ==
    /\ obj[i].status = "new"
    /\ Idle(i)
    /\ obj' = [obj EXCEPT ![i] =
                 [set_preprocess_function(@, preprocess_function) EXCEPT
                    !.hook_output = None,
                    !.extract_layer = extract_layer,
                    !.weights_path = weights_path,
                    !.device = torch_device(device_count),
                    !.status = "init",
                    !.at = 1]]
    /\ UNCHANGED <<device_count, checkpoint>>

Running(i, step) ==
    /\ obj[i].status = "init"
    /\ InitSteps[obj[i].at] = step

SetNumIdentities(i) ==
    /\ Running(i, "_set_num_identities")
    /\ obj' = [obj EXCEPT ![i] = Advance(assign_num_identities(@, checkpoint))]
    /\ UNCHANGED <<device_count, checkpoint>>

\* self._build_model(), implemented by the subclass
BuildModel(i, b) ==
    /\ Running(i, "_build_model")
    /\ obj' = [obj EXCEPT ![i] =
                 Advance([@ EXCEPT !.model = NewModel(b),
                                   !.calls = Append(@, "_build_model")])]
    /\ UNCHANGED <<device_count, checkpoint>>

\* if weights_path: self._load_model()
LoadModel(i) ==
    /\ Running(i, "_load_model")
    /\ obj' = [obj EXCEPT ![i] =
                 Advance(IF @.weights_path # None
                         THEN load_model(@, checkpoint, device_count)
                         ELSE @)]
    /\ UNCHANGED <<device_count, checkpoint>>

\* self.to()
To(i) ==
    /\ Running(i, "to")
    /\ obj' = [obj EXCEPT ![i] = Advance(to(@))]
    /\ UNCHANGED <<device_count, checkpoint>>

\* self._register_hook()
RegisterHook(i) ==
    /\ Running(i, "_register_hook")
    /\ obj' = [obj EXCEPT ![i] = Advance(register_hook(@))]
    /\ UNCHANGED <<device_count, checkpoint>>

\* a forward pass of instance i's model in which the layer extract_layer
\* names outputs out; the framework calls the hooks registered on it
Forward(i, out) ==
    /\ obj[i].status = "ready"
    /\ Idle(i)
    /\ HasLayer(obj[i])
    /\ obj' = IF Hooked(obj[i].model, TheLayer(obj[i]).id)
              THEN hook_fn([obj EXCEPT ![i].layer_out = out], i, out)
              ELSE [obj EXCEPT ![i].layer_out = out]
    /\ UNCHANGED <<device_count, checkpoint>>

\* a later call of to() on a constructed instance
ToAgain(i) ==
    /\ obj[i].status = "ready"
    /\ Idle(i)
    /\ obj' = [obj EXCEPT ![i] = to(@)]
    /\ UNCHANGED <<device_count, checkpoint>>

TypeOK ==
    /\ device_count \in 0..MaxDevices
    /\ checkpoint \in Checkpoints
    /\ \A i \in DOMAIN obj : obj[i].status \in {"new", "init", "ready", "failed"}

Init ==
    /\ device_count \in 0..MaxDevices
    /\ checkpoint \in Checkpoints
    /\ obj = [i \in {"a"} |-> Fresh]

Next ==
    \/ \E i \in DOMAIN obj, wp \in WeightsPaths, el \in ExtractLayers,
          pf \in PreprocessFunctions : Construct(i, wp, el, pf)
    \/ \E i \in DOMAIN obj : SetNumIdentities(i)
    \/ \E i \in DOMAIN obj, b \in Builds : BuildModel(i, b)
    \/ \E i \in DOMAIN obj : LoadModel(i)
    \/ \E i \in DOMAIN obj : To(i)
    \/ \E i \in DOMAIN obj : RegisterHook(i)
    \/ \E i \in DOMAIN obj, out \in Outputs : Forward(i, out)
    \/ \E i \in DOMAIN obj : ToAgain(i)

Spec == Init /\ [][Next]_vars

\* two instances in one process, reading the same checkpoint file
PairCheckpoints ==
    { Nested(Dict(<<Item(K_module_w, Tensor(1, <<7, 3>>))>>)) }

InitPair ==
    /\ device_count \in 0..MaxDevices
    /\ checkpoint \in PairCheckpoints
    /\ obj = [i \in {"a", "b"} |-> Fresh]

SpecPair == InitPair /\ [][Next]_vars

----------------------------------------------------------------------------
(* Vocabulary of the properties.                                           *)

StepIndex(step) == CHOOSE n \in 1..Len(InitSteps) : InitSteps[n] = step

\* __init__ ended in an exception raised by this statement
FailedIn(s, step) == s.status = "failed" /\ InitSteps[s.at] = step

\* this statement of __init__ has been executed, normally or not
StepDone(s, step) ==
    \/ s.status = "ready"
    \/ s.status = "init" /\ s.at > StepIndex(step)
    \/ s.status = "failed" /\ s.at >= StepIndex(step)

CallIndex(calls, c) == CHOOSE n \in 1..Len(calls) : calls[n] = c
WasCalled(calls, c) == \E n \in 1..Len(calls) : calls[n] = c

\* a mapping from parameter names to tensors
IsStateDict(d) ==
    /\ d.t = "dict"
    /\ \A n \in 1..Len(d.items) : d.items[n].v.t = "tensor"

\* a state dictionary, or a mapping holding one under 'state_dict'
Recognized(c) ==
    \/ IsStateDict(c)
    \/ /\ c.t = "dict"
       /\ HasKey(c, S_state_dict)
       /\ IsStateDict(GetItem(c, S_state_dict))

TheStateDict(c) == IF IsStateDict(c) THEN c ELSE GetItem(c, S_state_dict)

\* a name with one leading "module." taken off, if it has one
WithoutPrefix(k) ==
    IF StartsWith(k, S_module_dot) THEN SubSeq(k, Len(S_module_dot) + 1, Len(k)) ELSE k

----------------------------------------------------------------------------
(* C1: at every point of every __init__ where _load_model or to() is about *)
(* to run, _build_model has already assigned the model; load_state_dict,   *)
(* DataParallel, to and eval are only ever called after _build_model.      *)
C1_BuiltBeforeLoadAndPlacement ==
    \A i \in DOMAIN obj :
      /\ (obj[i].status = "init" /\ InitSteps[obj[i].at] \in {"_load_model", "to"})
            => obj[i].model.t # "unset"
      /\ \A n \in 1..Len(obj[i].calls) :
            obj[i].calls[n] \in {"load_state_dict", "DataParallel", "to", "eval"}
              => \E m \in 1..(n - 1) : obj[i].calls[m] = "_build_model"
      /\ obj[i].model.t = "unset" => obj[i].state_dict = None

C1_Witness ==
    \E i \in DOMAIN obj :
      /\ obj[i].status = "ready"
      /\ obj[i].weights_path # None
      /\ obj[i].extract_layer # None
      /\ WasCalled(obj[i].calls, "load_state_dict")
      /\ WasCalled(obj[i].calls, "to")

(* C2: from the assignment at line 9 on, hook_output is None as long as no *)
(* forward pass went through the layer; on a constructed instance whose    *)
(* layer carries the hook, hook_output is always the output of the latest  *)
(* forward pass through that layer.                                        *)
C2_HookOutputIsLatest ==
    \A i \in DOMAIN obj :
      /\ (obj[i].status # "new" /\ obj[i].layer_out = None)
            => obj[i].hook_output = None
      /\ ( /\ obj[i].status = "ready"
           /\ HasLayer(obj[i])
           /\ Hooked(obj[i].model, TheLayer(obj[i]).id) )
            => obj[i].hook_output = obj[i].layer_out

C2_Witness ==
    \E i \in DOMAIN obj :
      /\ obj[i].status = "ready"
      /\ HasLayer(obj[i])
      /\ Hooked(obj[i].model, TheLayer(obj[i]).id)
      /\ obj[i].hook_output = Output(MaxOutputs)

(* C3: whenever extract_layer names a module of the network _build_model   *)
(* built and __init__ got as far as _register_hook, construction succeeds  *)
(* and exactly one hook, on that module, is registered.                    *)
C3_HookOnExistingLayer ==
    \A i \in DOMAIN obj :
      ( /\ StepDone(obj[i], "_register_hook")
        /\ ~ \E step \in {"_set_num_identities", "_build_model", "_load_model", "to"} :
               FailedIn(obj[i], step)
        /\ obj[i].model.t = "Module"
        /\ obj[i].extract_layer # None
        /\ HasKey(NetModules(obj[i].model.net), obj[i].extract_layer.s) )
        => /\ obj[i].status = "ready"
           /\ obj[i].model.hooks =
                <<GetItem(NetModules(obj[i].model.net), obj[i].extract_layer.s).id>>

C5_StripsLeadingPrefix ==
    \A i \in DOMAIN obj :
      obj[i].state_dict # None =>
        /\ Len(obj[i].state_dict.items) = Len(checkpoint_get(checkpoint).val.items)
        /\ \A n \in 1..Len(checkpoint_get(checkpoint).val.items) :
             /\ HasKey(obj[i].state_dict,
                       WithoutPrefix(checkpoint_get(checkpoint).val.items[n].k))
             /\ GetItem(obj[i].state_dict,
                        WithoutPrefix(checkpoint_get(checkpoint).val.items[n].k))
                  = checkpoint_get(checkpoint).val.items[n].v

(* C6, as claimed: for every checkpoint that is a state dictionary or      *)
(* holds one under 'state_dict', _set_num_identities returns the first     *)
(* dimension of that dictionary's last entry.                              *)
C6_LastEntryFirstDim_AsClaimed ==
    \A i \in DOMAIN obj :
      ( /\ StepDone(obj[i], "_set_num_identities")
        /\ obj[i].weights_path # None
        /\ Recognized(checkpoint) )
        => /\ ~FailedIn(obj[i], "_set_num_identities")
           /\ Len(TheStateDict(checkpoint).items) > 0
           /\ Len(TheStateDict(checkpoint).items[Len(TheStateDict(checkpoint).items)]
                    .v.shape) > 0
           /\ obj[i].num_identities =
                PyNumber(TheStateDict(checkpoint).items[Len(TheStateDict(checkpoint).items)]
                           .v.shape[1])

(* C6, amended: for every such checkpoint whose state dictionary is not    *)
(* empty and whose last entry has at least one dimension,                  *)
(* _set_num_identities returns the first dimension of the last entry,      *)
(* num_identities keeps that value to the end of construction, and the     *)
(* mapping _load_model hands to load_state_dict is that same state         *)
(* dictionary with its keys stripped.                                      *)
C6_LastEntryFirstDim ==
    \A i \in DOMAIN obj :
      ( /\ StepDone(obj[i], "_set_num_identities")
        /\ obj[i].weights_path # None
        /\ Recognized(checkpoint)
        /\ Len(TheStateDict(checkpoint).items) > 0
        /\ Len(TheStateDict(checkpoint).items[Len(TheStateDict(checkpoint).items)]
                 .v.shape) > 0 )
        => /\ ~FailedIn(obj[i], "_set_num_identities")
           /\ obj[i].num_identities =
                PyNumber(TheStateDict(checkpoint).items[Len(TheStateDict(checkpoint).items)]
                           .v.shape[1])
           /\ StepDone(obj[i], "_load_model")
                => obj[i].state_dict = strip_keys(TheStateDict(checkpoint)).val

C6_Witness ==
    \E i \in DOMAIN obj :
      /\ obj[i].status = "ready"
      /\ obj[i].weights_path # None
      /\ HasKey(checkpoint, S_state_dict)
      /\ Len(TheStateDict(checkpoint).items) = MaxEntries
      /\ TheStateDict(checkpoint).items[1].v.shape = <<5>>
      /\ obj[i].num_identities = PyNumber(7)

(* C7: for every checkpoint that is neither a state dictionary nor a       *)
(* mapping holding one under 'state_dict', _set_num_identities raises and  *)
(* num_identities never receives a count.                                  *)
C7_UnrecognizedFormatFails ==
    \A i \in DOMAIN obj :
      ( /\ StepDone(obj[i], "_set_num_identities")
        /\ obj[i].weights_path # None
        /\ ~Recognized(checkpoint) )
        => /\ FailedIn(obj[i], "_set_num_identities")
           /\ obj[i].num_identities.t # "int"

\* every parameter of the model lives on the instance's device
OnDevice(s) == ParamKeys(s.model.net) # {} => s.model.device = s.device

(* C8: once _load_model has run without error, its calls on the model were *)
(* load_state_dict, then DataParallel exactly when more than one           *)
(* accelerator is present, then eval, the model being on the device by     *)
(* then; the constructed model is in evaluation mode and wrapped exactly   *)
(* when the accelerator count exceeds 1.                                   *)
C8_LoadModelOrder ==
    \A i \in DOMAIN obj :
      ( /\ obj[i].weights_path # None
        /\ obj[i].status \in {"init", "ready"}
        /\ StepDone(obj[i], "_load_model") )
        => /\ WasCalled(obj[i].calls, "load_state_dict")
           /\ WasCalled(obj[i].calls, "eval")
           /\ WasCalled(obj[i].calls, "DataParallel") <=> device_count > 1
           /\ CallIndex(obj[i].calls, "load_state_dict") < CallIndex(obj[i].calls, "eval")
           /\ WasCalled(obj[i].calls, "DataParallel") =>
                /\ CallIndex(obj[i].calls, "load_state_dict")
                     < CallIndex(obj[i].calls, "DataParallel")
                /\ CallIndex(obj[i].calls, "DataParallel")
                     < CallIndex(obj[i].calls, "eval")
           /\ WasCalled(obj[i].calls, "to") =>
                CallIndex(obj[i].calls, "to") < CallIndex(obj[i].calls, "eval")
           /\ OnDevice(obj[i])
           /\ ~obj[i].model.training
           /\ obj[i].model.wrapped <=> device_count > 1

(* C9: on every constructed instance that holds a network, the network's   *)
(* parameters are on the instance's device, that device is the accelerator *)
(* exactly when one is available, and another to() changes nothing.        *)
C9_PlacedOnDevice ==
    \A i \in DOMAIN obj :
      (obj[i].status = "ready" /\ obj[i].model.t = "Module")
        => /\ obj[i].device = IF device_count > 0 THEN "cuda" ELSE "cpu"
           /\ OnDevice(obj[i])
           /\ to(obj[i]) = obj[i]

(* C10: a forward pass of one instance leaves every other instance as it   *)
(* was, and changes nothing of its own instance but the hook output (and   *)
(* the record of the layer's last output).                                 *)
C10_ForwardTouchesOwnSlotOnly ==
    [][ \A i \in DOMAIN obj, out \in Outputs :
          Forward(i, out) =>
            /\ \A j \in DOMAIN obj \ {i} : obj'[j] = obj[j]
            /\ obj'[i] = [obj[i] EXCEPT !.hook_output = obj'[i].hook_output,
                                        !.layer_out = out]
            /\ Hooked(obj[i].model, TheLayer(obj[i]).id) => obj'[i].hook_output = out
      ]_vars

C10_Witness ==
    /\ \A i \in DOMAIN obj :
         /\ obj[i].status = "ready"
         /\ HasLayer(obj[i])
         /\ Hooked(obj[i].model, TheLayer(obj[i]).id)
    /\ obj["a"].hook_output = Output(1)
    /\ obj["b"].hook_output = Output(MaxOutputs)

====
